---- MODULE Spec2Model ----
(***************************************************************************)
(* Chat-session persistence and the message-post orchestration of the     *)
(* Local LLM Chat API: the SQLite chat store (app/infrastructure/          *)
(* storage.py), the HTTP handlers that drive it (app/main.py) and the      *)
(* outcomes of the collaborators they call (app/adapters, app/core).       *)
(*                                                                         *)
(* Every storage call opens its own connection; a SELECT runs outside a    *)
(* transaction and the first INSERT/DELETE opens one that the trailing     *)
(* commit() closes.  A step of the model is therefore one SQL statement    *)
(* (or one committed group of writes), or one call to a collaborator.      *)
(***************************************************************************)
EXTENDS Integers, Sequences, FiniteSets, TLC

\* ------------------------------------------------------------------ bounds
MaxChats == 2        \* create_chat calls explored (distinct uuid4 values)
MaxClock == 1        \* CURRENT_TIMESTAMP takes the values 0..MaxClock
MaxDirectRows == 2   \* direct add_message calls insert while the table holds fewer rows
\* the server with a message post in flight (Spec)
MaxPostChats == 1    \* chats created
MaxSeedRows == 1     \* direct add_message calls insert while the table holds fewer rows
MaxRows == 6         \* rows the messages table may hold (one post appends up to five)
MaxPosts == 1        \* send_message requests explored

\* ------------------------------------------------------------------ values
NoChat == "no-such-chat"            \* an identifier create_chat never returned
uuid4(n) == "chat-" \o ToString(n)  \* the n-th value str(uuid.uuid4()) yields
Callers == {"c1", "c2"}             \* threads calling the store directly
Roles == {"user", "assistant", "system"}
Texts == {"hello"}                  \* message texts a client sends
Filenames == {"a.png", "a.txt"}     \* one image name, one other name
\* chat names are character sequences, so that strip() has something to do
NameInputs == {<<>>, <<" ">>, <<"w">>, <<" ", "h", " ">>}

VARIABLES
  chats,       \* table chats: the chat_id values present
  messages,    \* table messages: rows in AUTOINCREMENT id order
  chat_names,  \* table chat_names: chat_id -> name, on the ids that have a row
  files,       \* names present in the file storage directory
  clock,       \* CURRENT_TIMESTAMP (one-second resolution)
  created,     \* how many uuid4 values create_chat has drawn
  caller,      \* per direct caller: the add_message call it is inside, if any
  ret,         \* what the latest storage call or one-statement handler answered
  req,         \* the send_message request being handled
  posted       \* how many send_message requests have arrived

vars == <<chats, messages, chat_names, files, clock, created, caller, ret, req, posted>>

\* ------------------------------------------------------- storage.py: tables

\* Identifiers a client can name: the impossible one and those already handed out.
KnownIds == {NoChat} \cup {uuid4(n) : n \in 1..created}

\* SELECT 1 FROM chats WHERE chat_id = ?
ChatExists(c) == c \in chats

\* The row INSERT INTO messages (chat_id, role, content) writes; the timestamp
\* column takes its DEFAULT CURRENT_TIMESTAMP.
MessageRow(c, m) ==
  [chat_id |-> c, role |-> m.role, content |-> m.content, timestamp |-> clock]

InsertMessage(c, m) == Append(messages, MessageRow(c, m))

\* Positions (ids) of the rows of chat c.
RowsOf(c) == {i \in 1..Len(messages) : messages[i].chat_id = c}

MinTimestamp(S) == CHOOSE t \in {messages[i].timestamp : i \in S} :
                     \A j \in S : t <= messages[j].timestamp

\* ORDER BY timestamp ASC: every order of the ids in S with non-decreasing
\* timestamp.  SQLite leaves the order of rows with equal sort keys undefined.
RECURSIVE OrderByTimestamp(_)
OrderByTimestamp(S) ==
  IF S = {} THEN {<<>>}
  ELSE UNION {{<<i>> \o t : t \in OrderByTimestamp(S \ {i})} :
                i \in {j \in S : messages[j].timestamp = MinTimestamp(S)}}

\* [{"role": row[0], "content": row[1]} for row in cursor.fetchall()]
AsDicts(ids) == [k \in 1..Len(ids) |->
                   [role |-> messages[ids[k]].role, content |-> messages[ids[k]].content]]

\* get_history: the results the SELECT ... ORDER BY timestamp ASC can produce.
get_history(c) == {AsDicts(ids) : ids \in OrderByTimestamp(RowsOf(c))}

\* The rows of chat c in the order the INSERTs were issued (id order).
RECURSIVE Ascending(_)
Ascending(S) ==
  IF S = {} THEN <<>>
  ELSE LET i == CHOOSE x \in S : \A y \in S : x <= y
       IN <<i>> \o Ascending(S \ {i})

Issued(c) == AsDicts(Ascending(RowsOf(c)))

\* A delete_chat that forgets the messages table.
DeleteNoMessage(c) == messages

\* DELETE FROM messages WHERE chat_id = ?
DeleteMessages(c) == SelectSeq(messages, LAMBDA r : r.chat_id # c)

\* DELETE FROM chats without its WHERE clause.
DeleteEveryChatRow(c) == {}

\* DELETE FROM chats WHERE chat_id = ?
DeleteChatRow(c) == chats \ {c}

\* new_name.strip()
RECURSIVE LStrip(_)
LStrip(s) == IF s # <<>> /\ Head(s) = " " THEN LStrip(Tail(s)) ELSE s

RECURSIVE RStrip(_)
RStrip(s) == IF s # <<>> /\ s[Len(s)] = " " THEN RStrip(SubSeq(s, 1, Len(s) - 1)) ELSE s

\* A rename_chat that tests new_name itself.
NoStrip(s) == s

Strip(s) == RStrip(LStrip(s))

\* INSERT OR REPLACE INTO chat_names (chat_id, name) VALUES (?, ?)
UpsertName(c, n) ==
  [x \in (DOMAIN chat_names) \cup {c} |-> IF x = c THEN n ELSE chat_names[x]]

\* ------------------------------------------------ storage.py: return values
NoHist == <<>>
NoName == <<>>

Returned(op, c) ==
  [op |-> op, chat_id |-> c, err |-> "", hist |-> NoHist, issued |-> NoHist,
   name |-> NoName, found |-> FALSE, status |-> 0, absent |-> FALSE]

Raised(op, c, e) == [Returned(op, c) EXCEPT !.err = e]

Idle == [pc |-> "idle", chat_id |-> NoChat, role |-> "", content |-> ""]

\* ------------------------------------------------------------------ state
NoRequest == [pc |-> "idle"]

Init ==
  /\ chats = {}
  /\ messages = <<>>
  /\ chat_names = <<>>
  /\ files = {}
  /\ clock = 0
  /\ created = 0
  /\ caller = [p \in Callers |-> Idle]
  /\ ret = Returned("", NoChat)
  /\ req = NoRequest
  /\ posted = 0

\* The wall clock moves on between statements.
Tick ==
  /\ clock < MaxClock
  /\ clock' = clock + 1
  /\ UNCHANGED <<chats, messages, chat_names, files, created, caller, ret, req, posted>>

\* --------------------------------------- storage.py: SQLiteChatStorage calls

create_chat(p) ==
  /\ caller[p].pc = "idle"
  /\ created < MaxChats
  /\ created' = created + 1
  /\ chats' = chats \cup {uuid4(created + 1)}
  /\ ret' = Returned("create_chat", uuid4(created + 1))
  /\ UNCHANGED <<messages, chat_names, files, clock, caller, req, posted>>

\* add_message, first statement: the existence SELECT; ValueError when no row.
add_message_check(p, c, role, content) ==
  /\ caller[p].pc = "idle"
  /\ IF ChatExists(c)
       THEN /\ caller' = [caller EXCEPT ![p] =
                 [pc |-> "add_checked", chat_id |-> c, role |-> role, content |-> content]]
            /\ UNCHANGED ret
       ELSE /\ ret' = Raised("add_message", c, "ValueError")
            /\ UNCHANGED caller
  /\ UNCHANGED <<chats, messages, chat_names, files, clock, created, req, posted>>

\* add_message, second statement: the INSERT and its commit.
add_message_insert(p, limit) ==
  /\ caller[p].pc = "add_checked"
  /\ Len(messages) < limit
  /\ messages' = InsertMessage(caller[p].chat_id, caller[p])
  /\ caller' = [caller EXCEPT ![p] = Idle]
  /\ ret' = Returned("add_message", caller[p].chat_id)
  /\ UNCHANGED <<chats, chat_names, files, clock, created, req, posted>>

get_history_call(p, c) ==
  /\ caller[p].pc = "idle"
  /\ \E h \in get_history(c) :
       ret' = [Returned("get_history", c) EXCEPT !.hist = h, !.issued = Issued(c)]
  /\ UNCHANGED <<chats, messages, chat_names, files, clock, created, caller, req, posted>>

\* delete_chat: both DELETEs belong to one transaction, committed together.
delete_chat(p, c) ==
  /\ caller[p].pc = "idle"
  /\ messages' = DeleteMessages(c)
  /\ chats' = DeleteChatRow(c)
  /\ ret' = Returned("delete_chat", c)
  /\ UNCHANGED <<chat_names, files, clock, created, caller, req, posted>>

rename_chat(p, c, new_name) ==
  /\ caller[p].pc = "idle"
  /\ IF Strip(new_name) = <<>>
       THEN /\ ret' = Raised("rename_chat", c, "ValueError")
            /\ UNCHANGED chat_names
       ELSE IF ~ChatExists(c)
         THEN /\ ret' = Raised("rename_chat", c, "ValueError")
              /\ UNCHANGED chat_names
         ELSE /\ chat_names' = UpsertName(c, Strip(new_name))
              /\ ret' = Returned("rename_chat", c)
  /\ UNCHANGED <<chats, messages, files, clock, created, caller, req, posted>>

get_chat_name(p, c) ==
  /\ caller[p].pc = "idle"
  /\ ret' = IF c \in DOMAIN chat_names
              THEN [Returned("get_chat_name", c) EXCEPT !.name = chat_names[c], !.found = TRUE]
              ELSE Returned("get_chat_name", c)
  /\ UNCHANGED <<chats, messages, chat_names, files, clock, created, caller, req, posted>>

\* One client calling the store, one call after the other.
StoreNext ==
  \/ Tick
  \/ create_chat("c1")
  \/ \E c \in KnownIds, r \in Roles, t \in Texts : add_message_check("c1", c, r, t)
  \/ add_message_insert("c1", MaxDirectRows)
  \/ \E c \in KnownIds : get_history_call("c1", c)
  \/ \E c \in KnownIds : delete_chat("c1", c)
  \/ \E c \in KnownIds, n \in NameInputs : rename_chat("c1", c, n)
  \/ \E c \in KnownIds : get_chat_name("c1", c)

StoreSpec == Init /\ [][StoreNext]_vars

\* ------------------------------------------------- collaborators' outcomes
Raise == "<raise>"                  \* the call raises instead of returning

\* LLM: get_llm_client returns OllamaClient (its constructor opens no connection,
\* so the LM Studio fallback is never taken).  generate_response and
\* generate_response_with_image return the reply's content or re-raise.
Replies == {"hi there", ""}
generate_response == Replies \cup {Raise}
generate_response_with_image == Replies \cup {Raise}

\* FileProcessor: both methods catch every exception and return a text.
extract_text_from_image == {"ocr text", "Error extracting text from image: e"}
process_file == {"page1\npage2", "Error processing file: e"}

\* EmbeddingService.search_similar: the ranked texts (none, or some), or an
\* exception from model.encode / sqlite3.connect, which it does not catch.
search_similar == {<<>>, <<"kb1", "kb2">>}
search_similar_outcomes == {[raised |-> FALSE, texts |-> r] : r \in search_similar}
                             \cup {[raised |-> TRUE, texts |-> <<>>]}

\* IWebSearch.search: formatted results, or the error text the adapters return
\* from their own except clause.
search == {"result A", "Search error: e"}

\* FileStorage.save_file: open(filepath, 'wb') succeeds or raises OSError.
save_file == {"saved", Raise}

\* PIL.Image.open on the uploaded bytes: an image, or an exception.
ImageOpen == {"image", Raise}

IsImage(f) == f = "a.png"           \* filename.lower().endswith(('.png', '.jpg', '.jpeg'))

\* hasattr(llm, 'generate_response_with_image'): both client classes define it.
HasImageGeneration == TRUE

\* ------------------------------------------------ main.py: message contents
\* (the Russian literals of the source are given in English)
ImageUserContent(message, f, extracted) ==
  message \o "\n[Image: " \o f \o "]\nExtracted text: " \o extracted

ImageFileContent(f, extracted) ==
  "\n[Attached image: " \o f \o "]\nExtracted text: " \o extracted

ImageErrorContent(e) == "\n[Image processing error: " \o e \o "]"

OtherFileContent(f, extracted) == "\n[Attached file: " \o f \o "]\n" \o extracted

RECURSIVE JoinContext(_)
JoinContext(texts) ==
  IF Len(texts) = 1 THEN "Knowledge base context: " \o texts[1]
  ELSE "Knowledge base context: " \o texts[1] \o "\n" \o JoinContext(Tail(texts))

WebContent(web_data) == "Web context: " \o web_data

\* ---------------------------------------------------- main.py: send_message
NoPending == [role |-> "", content |-> ""]

\* The request once its existence check (line 159) has passed.
Accepted(c, message, use_web, use_embeddings, f) ==
  [pc |-> IF f = "" THEN "add_check" ELSE "file",
   stage |-> "user",
   chat_id |-> c, message |-> message, use_web |-> use_web,
   use_embeddings |-> use_embeddings, file |-> f,
   file_content |-> "", files_in_response |-> <<>>,
   pending |-> [role |-> "user", content |-> message],
   prompt |-> <<>>,
   status |-> 0, response |-> "", exc |-> "",
   \* what the request has done so far
   passed |-> TRUE, existed |-> ChatExists(c), fresh |-> FALSE,
   n_user |-> 0, n_assistant |-> 0, n_system |-> 0, n_generate |-> 0,
   generate_raised |-> FALSE, generate_empty |-> FALSE, collaborator_failed |-> FALSE]

\* raise HTTPException(status_code=404, detail="Chat not found"), re-raised by
\* the except HTTPException clause.
Rejected(c, message, use_web, use_embeddings, f) ==
  [Accepted(c, message, use_web, use_embeddings, f) EXCEPT
     !.pc = "done", !.status = 404, !.exc = "Chat not found", !.passed = FALSE,
     !.fresh = ChatExists(c), !.stage = "", !.pending = NoPending]

\* except Exception: raise HTTPException(status_code=500, detail=...str(e))
Failed(r, e) ==
  [r EXCEPT !.pc = "done", !.status = 500, !.exc = e,
            !.stage = "", !.pending = NoPending, !.file_content = ""]

\* return {"response": response, "files": ...}
Succeeded(r, files_out) ==
  [r EXCEPT !.pc = "done", !.status = 200, !.response = r.pending.content,
            !.files_in_response = files_out,
            !.stage = "", !.pending = NoPending, !.file_content = ""]

\* Lines 157-160: a request arrives; storage.get_history(chat_id) decides whether
\* the chat is taken to exist.
send_message_begin(c, message, use_web, use_embeddings, f) ==
  /\ req.pc \in {"idle", "done"}
  /\ posted < MaxPosts
  /\ posted' = posted + 1
  /\ req' = IF get_history(c) = {<<>>}
              THEN Rejected(c, message, use_web, use_embeddings, f)
              ELSE Accepted(c, message, use_web, use_embeddings, f)
  /\ UNCHANGED <<chats, messages, chat_names, files, clock, created, caller, ret>>

\* The except clause of line 193: the image branch failed, the text path goes on.
ImageBranchFailed(r, e) ==
  [r EXCEPT !.pc = "add_check", !.stage = "user",
            !.file_content = ImageErrorContent(e),
            !.pending = [role |-> "user", content |-> r.message \o ImageErrorContent(e)]]

\* Lines 167-203: the attachment is saved and turned into text.
send_message_file ==
  /\ req.pc = "file"
  /\ \E saved \in save_file :
       IF saved = Raise
         THEN /\ req' = Failed(req, "OSError")
              /\ UNCHANGED files
         ELSE
           /\ files' = files \cup {req.file}
           /\ IF IsImage(req.file)
                THEN \E img \in ImageOpen :
                  IF img = Raise
                    THEN req' = [ImageBranchFailed(req, "cannot identify image file")
                                   EXCEPT !.collaborator_failed = TRUE]
                    ELSE \E extracted \in extract_text_from_image :
                      IF HasImageGeneration
                        THEN req' = [req EXCEPT
                               !.pc = "add_check", !.stage = "img_user",
                               !.collaborator_failed = (extracted # "ocr text"),
                               !.pending = [role |-> "user", content |->
                                  ImageUserContent(req.message, req.file, extracted)]]
                        ELSE req' = [req EXCEPT
                               !.pc = "add_check", !.stage = "user",
                               !.collaborator_failed = (extracted # "ocr text"),
                               !.file_content = ImageFileContent(req.file, extracted),
                               !.pending = [role |-> "user", content |->
                                  req.message \o ImageFileContent(req.file, extracted)]]
                ELSE \E extracted \in process_file :
                  req' = [req EXCEPT
                     !.pc = "add_check", !.stage = "user",
                     !.collaborator_failed = (extracted # "page1\npage2"),
                     !.file_content = OtherFileContent(req.file, extracted),
                     !.files_in_response = <<req.file>>,
                     !.pending = [role |-> "user", content |->
                        req.message \o OtherFileContent(req.file, extracted)]]
  /\ UNCHANGED <<chats, messages, chat_names, clock, created, caller, ret, posted>>

\* storage.add_message called by the handler, first statement.  A ValueError
\* inside the image branch is caught at line 193, elsewhere at line 232.
send_message_add_check ==
  /\ req.pc = "add_check"
  /\ req' = IF ChatExists(req.chat_id)
              THEN [req EXCEPT !.pc = "add_insert"]
              ELSE IF req.stage \in {"img_user", "img_assistant"}
                THEN ImageBranchFailed(req, "Chat not found")
                ELSE Failed(req, "ValueError")
  /\ UNCHANGED <<chats, messages, chat_names, files, clock, created, caller, ret, posted>>

\* Where the handler goes once the user turn (and any context) is stored.
AfterUser(r) ==
  IF r.stage = "user" /\ r.use_embeddings THEN "embeddings"
  ELSE IF r.stage \in {"user", "emb"} /\ r.use_web THEN "web"
  ELSE "generate"

Counted(r) ==
  [r EXCEPT !.n_user = @ + (IF r.pending.role = "user" THEN 1 ELSE 0),
            !.n_assistant = @ + (IF r.pending.role = "assistant" THEN 1 ELSE 0),
            !.n_system = @ + (IF r.pending.role = "system" THEN 1 ELSE 0)]

\* storage.add_message called by the handler, second statement, and the
\* statement that follows it in send_message.
send_message_add_insert ==
  /\ req.pc = "add_insert"
  /\ Len(messages) < MaxRows
  /\ messages' = InsertMessage(req.chat_id, req.pending)
  /\ req' = CASE req.stage = "img_user" -> [Counted(req) EXCEPT !.pc = "img_generate"]
              [] req.stage = "img_assistant" -> Succeeded(Counted(req), <<req.file>>)
              [] req.stage = "assistant" -> Succeeded(Counted(req), req.files_in_response)
              [] OTHER -> [Counted(req) EXCEPT !.pc = AfterUser(req)]
  /\ UNCHANGED <<chats, chat_names, files, clock, created, caller, ret, posted>>

\* Lines 182-186: the history is read back and sent with the image.
send_message_img_generate ==
  /\ req.pc = "img_generate"
  /\ \E h \in get_history(req.chat_id), out \in generate_response_with_image :
       req' = IF out = Raise
                THEN [ImageBranchFailed(req, "generation failed") EXCEPT
                        !.prompt = h, !.n_generate = @ + 1, !.generate_raised = TRUE]
                ELSE [req EXCEPT !.pc = "add_check", !.stage = "img_assistant",
                        !.prompt = h, !.n_generate = @ + 1,
                        !.generate_empty = @ \/ (out = ""),
                        !.pending = [role |-> "assistant", content |-> out]]
  /\ UNCHANGED <<chats, messages, chat_names, files, clock, created, caller, ret, posted>>

\* Lines 210-214: retrieval over the embedding store.
send_message_embeddings ==
  /\ req.pc = "embeddings"
  /\ \E out \in search_similar_outcomes :
       req' = IF out.raised
                THEN [Failed(req, "EmbeddingError") EXCEPT !.collaborator_failed = TRUE]
                ELSE IF out.texts = <<>>
                  THEN [req EXCEPT !.pc = AfterUser([req EXCEPT !.stage = "emb"]),
                                   !.stage = "emb", !.collaborator_failed = TRUE]
                  ELSE [req EXCEPT !.pc = "add_check", !.stage = "emb",
                          !.pending = [role |-> "system", content |-> JoinContext(out.texts)]]
  /\ UNCHANGED <<chats, messages, chat_names, files, clock, created, caller, ret, posted>>

\* Lines 217-219: web search.
send_message_web ==
  /\ req.pc = "web"
  /\ \E web_data \in search :
       req' = [req EXCEPT !.pc = "add_check", !.stage = "web",
                 !.collaborator_failed = @ \/ (web_data # "result A"),
                 !.pending = [role |-> "system", content |-> WebContent(web_data)]]
  /\ UNCHANGED <<chats, messages, chat_names, files, clock, created, caller, ret, posted>>

\* Lines 222-225: the history is read back and sent to the model.
send_message_generate ==
  /\ req.pc = "generate"
  /\ \E h \in get_history(req.chat_id), out \in generate_response :
       req' = IF out = Raise
                THEN [Failed(req, "GenerationError") EXCEPT
                        !.prompt = h, !.n_generate = @ + 1, !.generate_raised = TRUE]
                ELSE [req EXCEPT !.pc = "add_check", !.stage = "assistant",
                        !.prompt = h, !.n_generate = @ + 1,
                        !.generate_empty = @ \/ (out = ""),
                        !.pending = [role |-> "assistant", content |-> out]]
  /\ UNCHANGED <<chats, messages, chat_names, files, clock, created, caller, ret, posted>>

\* ------------------------------------------- main.py: one-statement handlers
Response(op, c, status, absent) ==
  [Returned(op, c) EXCEPT !.status = status, !.absent = absent]

\* POST /chats
http_create_chat(limit) ==
  /\ created < limit
  /\ created' = created + 1
  /\ chats' = chats \cup {uuid4(created + 1)}
  /\ ret' = Response("POST /chats", uuid4(created + 1), 200, FALSE)
  /\ UNCHANGED <<messages, chat_names, files, clock, caller, req, posted>>

\* GET /chats/{chat_id}/messages.  The HTTPException(404) is raised inside the
\* try block, whose except Exception clause turns it into a 500.  The body of
\* a 200 answer is {"history": h} for one h of get_history(c).
get_chat_history_status(c) == IF get_history(c) = {<<>>} THEN 500 ELSE 200

get_chat_history(c) ==
  /\ ret' = Response("GET /chats/id/messages", c, get_chat_history_status(c), ~ChatExists(c))
  /\ UNCHANGED <<chats, messages, chat_names, files, clock, created, caller, req, posted>>

\* DELETE /chats/{chat_id}.  found notes whether the first DELETE removed any
\* row (the answer itself is {"status": "deleted"} in both cases).
http_delete_chat(c) ==
  /\ messages' = DeleteMessages(c)
  /\ chats' = DeleteChatRow(c)
  /\ ret' = [Response("DELETE /chats/id", c, 200, FALSE) EXCEPT !.found = RowsOf(c) # {}]
  /\ UNCHANGED <<chat_names, files, clock, created, caller, req, posted>>

\* GET /files/{filename}.  FileStorage.get_file raises FileNotFoundError for an
\* absent name, which the handler answers with 404; otherwise the handler
\* returns a FileResponse.
download_file(f) ==
  /\ ret' = IF f \in files
              THEN Response("GET /files/name", NoChat, 200, FALSE)
              ELSE Response("GET /files/name", NoChat, 404, TRUE)
  /\ UNCHANGED <<chats, messages, chat_names, files, clock, created, caller, req, posted>>

\* POST /files/upload: save_file, then process_file (which returns a text in
\* every case).
upload_file(f) ==
  /\ \E saved \in save_file :
       IF saved = Raise
         THEN /\ ret' = Response("POST /files/upload", NoChat, 500, FALSE)
              /\ UNCHANGED files
         ELSE /\ ret' = Response("POST /files/upload", NoChat, 200, FALSE)
              /\ files' = files \cup {f}
  /\ UNCHANGED <<chats, messages, chat_names, clock, created, caller, req, posted>>

\* DELETE /files/{filename}: os.remove when the file exists.
delete_file(f) ==
  /\ files' = files \ {f}
  /\ ret' = Response("DELETE /files/name", NoChat, 200, FALSE)
  /\ UNCHANGED <<chats, messages, chat_names, clock, created, caller, req, posted>>

\* The one-statement handlers, answering one client that also fills chats
\* through the store.
ApiNext ==
  \/ Tick
  \/ http_create_chat(MaxChats)
  \/ \E c \in KnownIds, r \in Roles, t \in Texts : add_message_check("c1", c, r, t)
  \/ add_message_insert("c1", MaxDirectRows)
  \/ \E c \in KnownIds : get_chat_history(c)
  \/ \E c \in KnownIds : http_delete_chat(c)
  \/ \E f \in Filenames : upload_file(f)
  \/ \E f \in Filenames : download_file(f)
  \/ \E f \in Filenames : delete_file(f)

ApiSpec == Init /\ [][ApiNext]_vars

\* The server handling a message post while other requests delete and create
\* chats and a thread calls the store directly.
Next ==
  \/ Tick
  \/ http_create_chat(MaxPostChats)
  \/ \E c \in KnownIds, t \in Texts : add_message_check("c1", c, "user", t)
  \/ add_message_insert("c1", MaxSeedRows)
  \/ \E c \in KnownIds, m \in Texts, w \in BOOLEAN, e \in BOOLEAN, f \in Filenames \cup {""} :
       send_message_begin(c, m, w, e, f)
  \/ send_message_file
  \/ send_message_add_check
  \/ send_message_add_insert
  \/ send_message_img_generate
  \/ send_message_embeddings
  \/ send_message_web
  \/ send_message_generate
  \/ \E c \in KnownIds : http_delete_chat(c)

Spec == Init /\ [][Next]_vars

\* ------------------------------------------------------------------ claims
Finished == req.pc = "done"

\* C1: a message post that passed the existence check, whose attachment was
\* stored and whose chat still exists when it ends, has appended exactly one
\* user message and at most one assistant message.
C1_OneUserTurn ==
  (Finished /\ req.passed /\ req.exc # "OSError" /\ ChatExists(req.chat_id))
    => (req.n_user = 1 /\ req.n_assistant <= 1)

\* C2: the first post to a chat just created (no message yet), without file,
\* web search or retrieval, and with no generation call raising or returning
\* an empty text, succeeds: it is answered 200 with the reply, having appended
\* one user message and one assistant message and nothing else.
C2_FirstPostSucceeds ==
  (Finished /\ req.fresh /\ req.file = "" /\ ~req.use_web /\ ~req.use_embeddings
     /\ ~req.generate_raised /\ ~req.generate_empty)
    => (req.status = 200 /\ req.response # ""
        /\ req.n_user = 1 /\ req.n_assistant = 1 /\ req.n_system = 0)

\* C3: a message post during which a generation call raised ends as a 5xx
\* failure with its user message appended and no assistant message appended.
C3_GenerationErrorFails ==
  (Finished /\ req.generate_raised)
    => (req.status >= 500 /\ req.n_user >= 1 /\ req.n_assistant = 0)

\* C4: a message post during which a generation call returned an empty text
\* ends as a failure with no assistant message appended, and no stored
\* assistant message has empty content.
C4_EmptyReplyFails ==
  /\ (Finished /\ req.generate_empty) => (req.status >= 500 /\ req.n_assistant = 0)
  /\ \A i \in 1..Len(messages) :
       messages[i].role = "assistant" => messages[i].content # ""

\* C5: get_history returns the messages of a chat in the order the add_message
\* calls were issued, one after the other, whatever their roles and timestamps.
C5_HistoryInIssueOrder ==
  ret.op = "get_history" => ret.hist = ret.issued

\* C6: delete_chat on a chat that has messages and a name leaves no message
\* and no name of that chat.
C6_DeleteRemovesMessagesAndName ==
  [][\A c \in KnownIds :
       (delete_chat("c1", c) /\ RowsOf(c) # {} /\ c \in DOMAIN chat_names)
         => (RowsOf(c)' = {} /\ c \notin DOMAIN chat_names')]_vars

\* C7: every stored message belongs to a chat that exists.
C7_NoOrphanMessage ==
  \A i \in 1..Len(messages) : ChatExists(messages[i].chat_id)

\* C8: a message post to a chat that does not exist (any attachment having
\* been stored) is answered not-found, appends no message and makes no
\* generation call.
C8_MissingChatNotFound ==
  (Finished /\ ~req.existed /\ req.exc # "OSError")
    => (req.status = 404 /\ req.n_user + req.n_assistant + req.n_system = 0
        /\ req.n_generate = 0)

\* C9: a message post in which search, retrieval or extraction raised or came
\* back empty, and whose chat still exists when it ends, has appended its user
\* message and made a generation call.
C9_CollaboratorErrorsAbsorbed ==
  (Finished /\ req.passed /\ req.collaborator_failed /\ ChatExists(req.chat_id))
    => (req.n_user >= 1 /\ req.n_generate >= 1)

\* C10: a request for a chat or a file that does not exist is answered 404.
C10_NotFoundIs404 ==
  ret.absent => ret.status = 404

\* ---------------------------------------------- claims on the prompt's order
\* The contents send_message gives the two context messages (lines 213, 219).
EmbContents == {JoinContext(t) : t \in search_similar \ {<<>>}}
WebContents == {WebContent(w) : w \in search}

IsEmb(m) == m.role = "system" /\ m.content \in EmbContents
IsWeb(m) == m.role = "system" /\ m.content \in WebContents

\* h holds a user message, then the retrieval context, then the web context.
UserEmbWeb(h) ==
  \E i, j, k \in DOMAIN h :
    i < j /\ j < k /\ h[i].role = "user" /\ IsEmb(h[j]) /\ IsWeb(h[k])

\* ... and the assistant reply after them.
UserEmbWebAssistant(h) ==
  \E i, j, k, l \in DOMAIN h :
    i < j /\ j < k /\ k < l /\ h[i].role = "user" /\ IsEmb(h[j]) /\ IsWeb(h[k])
      /\ h[l].role = "assistant"

\* C11: after a successful post with use_embeddings and use_web and a
\* non-empty retrieval result, get_history of the chat holds the user message,
\* the retrieval context, the web context and the assistant reply in that
\* order, and the history handed to the generation call held the user message
\* and both contexts in that order and no assistant reply.
C11_FixedContextOrder ==
  (Finished /\ req.status = 200 /\ req.use_embeddings /\ req.use_web
     /\ req.n_system = 2 /\ ChatExists(req.chat_id))
    => /\ \A h \in get_history(req.chat_id) : UserEmbWebAssistant(h)
       /\ UserEmbWeb(req.prompt)
       /\ \A i \in DOMAIN req.prompt : req.prompt[i].role # "assistant"

\* Web-context messages in the history a generation call was given.
WebInPrompt(r) == {i \in DOMAIN r.prompt : IsWeb(r.prompt[i])}

\* C12: a message post with use_web that has made a generation call, its chat
\* not having been deleted meanwhile, gave that call a history holding exactly
\* one system message with the search result.
C12_WebContextBeforeGeneration ==
  (req.pc # "idle" /\ req.use_web /\ req.n_generate >= 1 /\ ChatExists(req.chat_id))
    => Cardinality(WebInPrompt(req)) = 1

\* C16: a message post makes at most one generation call, the image entry
\* point and the text entry point counted together.
C16_AtMostOneGeneration ==
  req.pc # "idle" => req.n_generate <= 1

\* ------------------------------------------------------ claims on the store
\* new_name is empty or consists of blanks only.
Blank(n) == \A i \in 1..Len(n) : n[i] = " "

\* C13: rename_chat with an empty or blank name raises, for an existing and
\* for a missing chat alike, and changes no table, so that a name set before
\* is the one get_chat_name still returns.
C13_BlankRenameFails ==
  [][\A c \in KnownIds, n \in NameInputs :
       (rename_chat("c1", c, n) /\ Blank(n))
         => (ret'.err = "ValueError" /\ chat_names' = chat_names
             /\ chats' = chats /\ messages' = messages)]_vars

\* A blank rename of an existing chat that has a name has just raised.
C13_Witness ==
  /\ ret.op = "rename_chat" /\ ret.err = "ValueError"
  /\ ChatExists(ret.chat_id) /\ ret.chat_id \in DOMAIN chat_names

\* C14: once DELETE /chats/{id} has run, get_history(id) and the answer of
\* GET /chats/{id}/messages are those of an identifier never created.
C14_DeletedLikeNeverCreated ==
  [][\A c \in KnownIds :
       http_delete_chat(c)
         => (get_history(c)' = get_history(NoChat)'
             /\ get_chat_history_status(c)' = get_chat_history_status(NoChat)')]_vars

\* A chat that had messages has just been deleted.
C14_Witness ==
  /\ ret.op = "DELETE /chats/id" /\ ret.found /\ ret.chat_id # NoChat
  /\ get_history(ret.chat_id) = get_history(NoChat)

\* The rows of chat d, timestamps included.
MessagesOf(d) == SelectSeq(messages, LAMBDA r : r.chat_id = d)

\* C15: delete_chat raises nothing; deleting again changes nothing more; every
\* other chat keeps its row, its messages and its name; and on a chat already
\* deleted or never created it changes no table at all.
C15_DeleteIdempotent ==
  [][\A c \in KnownIds :
       delete_chat("c1", c)
         => /\ ret'.err = ""
            /\ DeleteMessages(c)' = messages' /\ DeleteChatRow(c)' = chats'
            /\ \A d \in KnownIds \ {c} :
                 /\ ChatExists(d)' = ChatExists(d)
                 /\ MessagesOf(d)' = MessagesOf(d)
            /\ chat_names' = chat_names
            /\ ~ChatExists(c) => (chats' = chats /\ messages' = messages)]_vars

\* delete_chat of an identifier never created has just returned, with another
\* chat holding messages and a name.
C15_Witness ==
  /\ ret.op = "delete_chat" /\ ret.err = "" /\ ret.chat_id = NoChat
  /\ \E d \in chats : RowsOf(d) # {} /\ d \in DOMAIN chat_names

\* ------------------------------------------------ two threads on the store
\* What each thread appends, so that its row can be told from the other's.
TextOf(p) == "hello from " \o p

\* Two threads calling add_message and get_history on the same store, their
\* statements interleaved as SQLite serialises them.
ConcurrentNext ==
  \/ Tick
  \/ create_chat("c1")
  \/ \E p \in Callers, c \in KnownIds : add_message_check(p, c, "user", TextOf(p))
  \/ \E p \in Callers : add_message_insert(p, MaxDirectRows)
  \/ \E p \in Callers, c \in KnownIds : get_history_call(p, c)

ConcurrentSpec == Init /\ [][ConcurrentNext]_vars

\* Both threads' add_message calls on chat c have returned, one row each.
BothAppended(c) ==
  /\ \A p \in Callers : caller[p].pc = "idle"
  /\ Cardinality(RowsOf(c)) = Cardinality(Callers)
  /\ \A p \in Callers : \E i \in RowsOf(c) : messages[i].content = TextOf(p)

\* C17: once two add_message calls on the same chat, made by two threads, have
\* both returned, every result of get_history holds each of the two messages
\* exactly once, and all results give them in the same order.
C17_ConcurrentAppendsKeepOrder ==
  \A c \in KnownIds :
    BothAppended(c)
      => /\ \A h \in get_history(c), p \in Callers :
              Cardinality({k \in DOMAIN h : h[k].content = TextOf(p)}) = 1
         /\ Cardinality(get_history(c)) = 1

\* ------------------------------------------------------------- termination
\* A step of the request being handled: the handler runs on a worker thread
\* of the server, which is scheduled as long as it has a statement to run.
send_message_step ==
  \/ send_message_file
  \/ send_message_add_check
  \/ send_message_add_insert
  \/ send_message_img_generate
  \/ send_message_embeddings
  \/ send_message_web
  \/ send_message_generate

LiveSpec == Spec /\ WF_vars(send_message_step)

InFlight == req.pc \notin {"idle", "done"}

\* Every message post in flight ends, each collaborator call returning or
\* raising (a timeout raises: requests' timeout=60 and timeout=90).
Terminates == InFlight ~> Finished

\* C18: every message post ends, and a generation call that times out (it
\* raises) ends the request at once as a 5xx failure.
C18_TimeoutFails ==
  [][(InFlight /\ ~req.generate_raised /\ req'.generate_raised)
       => (req'.pc = "done" /\ req'.status >= 500)]_vars

====
